---- MODULE Spec2Model ----
(***************************************************************************)
(* Wheel of Life: the priority scorer (server and client copies), the      *)
(* validation schema, the POST /api/email-results handler and the          *)
(* WheelOfLife form component.                                             *)
(*                                                                         *)
(* Numbers.  A JavaScript number is modelled as a fixed-point value with   *)
(* two fractional bits: the model value x stands for x/4.  Ratings are     *)
(* whole or half numbers, so sums, differences and products of the values  *)
(* the model uses are exact.                                               *)
(***************************************************************************)
EXTENDS Integers, Sequences, FiniteSets, TLC

\* ------------------------------------------------------------------ bounds
\* entries (over both mappings) of an assessment input drawn for the scorer
MaxEntries == 3

\* requests the server receives in one run
MaxRequests == 2

\* ratings the user has set on the form (over both mappings)
MaxRated == 2

\* times the user presses Retake Assessment
MaxRetakes == 1

\* ----------------------------------------------------------------- numbers
\* the number n
Q(n) == n * 4

\* the number n + 1/2
QH(n) == n * 4 + 2

\* a * b
Times(a, b) == (a * b) \div 4

\* Number.isInteger
IsInteger(x) == x % 4 = 0

\* ------------------------------------------------------------ shared/schema
lifeCategories ==
  << "health", "relationships", "romance", "personal",
     "fun", "community", "career", "finances" >>

Categories == { lifeCategories[i] : i \in 1..Len(lifeCategories) }

lifeCategoryLabels ==
  [ c \in Categories |->
      CASE c = "health"        -> "Health & Fitness"
        [] c = "relationships" -> "Friends & Family"
        [] c = "romance"       -> "Romance / Love Life"
        [] c = "personal"      -> "Personal Development"
        [] c = "fun"           -> "Fun & Recreation"
        [] c = "community"     -> "Community & Contribution"
        [] c = "career"        -> "Career / Business"
        [] c = "finances"      -> "Finances" ]

\* JSON values as they arrive in a request body
JsonNumber(x) == [type |-> "number", value |-> x]
JsonString(chars) == [type |-> "string", value |-> chars]
JsonObject(f) == [type |-> "object", entries |-> f]
JsonUndefined == [type |-> "undefined", value |-> << >>]

\* z.number().min(1).max(10)
RatingSchema(v) == v.type = "number" /\ v.value >= Q(1) /\ v.value <= Q(10)

\* z.record(z.number().min(1).max(10))
RecordSchema(m) ==
  /\ m.type = "object"
  /\ \A k \in DOMAIN m.entries : RatingSchema(m.entries[k])

\* assessmentSchema: z.object({satisfaction: ..., motivation: ...})
assessmentSchema(a) ==
  /\ a.type = "object"
  /\ {"satisfaction", "motivation"} \subseteq DOMAIN a.entries
  /\ RecordSchema(a.entries.satisfaction)
  /\ RecordSchema(a.entries.motivation)

\* the value assessmentSchema.parse returns for an input it accepts
ParsedRecord(m) == [ k \in DOMAIN m.entries |-> m.entries[k].value ]

ParsedAssessment(a) ==
  [ satisfaction |-> ParsedRecord(a.entries.satisfaction),
    motivation   |-> ParsedRecord(a.entries.motivation) ]

\* z.string().email(), reduced to its structure: one "@", a non-empty local
\* part, and a domain with a "." that has characters on both sides
EmailSchema(v) ==
  /\ v.type = "string"
  /\ LET s == v.value
         ats == { i \in 1..Len(s) : s[i] = "@" }
     IN  /\ Cardinality(ats) = 1
         /\ \E i \in ats :
              /\ i > 1
              /\ \E j \in (i + 2)..(Len(s) - 1) : s[j] = "."

\* z.string().optional()
NameSchema(v) == v.type \in { "undefined", "string" }

\* z.boolean().optional()
UpdatesSchema(v) == v.type \in { "undefined", "boolean" }

\* emailResultsSchema
emailResultsSchema(body) ==
  /\ EmailSchema(body.email)
  /\ NameSchema(body.name)
  /\ UpdatesSchema(body.updates)
  /\ assessmentSchema(body.assessmentData)

\* the value emailResultsSchema.parse returns for a body it accepts
ParsedBody(body) ==
  [ email          |-> body.email.value,
    name           |-> body.name,
    updates        |-> body.updates,
    assessmentData |-> ParsedAssessment(body.assessmentData) ]

\* ------------------------------------------------------------------- state
Null == [type |-> "null"]

VARIABLES
  input,          \* scorer pipeline: the assessmentData of one request body
  validated,      \* scorer pipeline: Null, Rejected or what parse returned
  serverResults,  \* scorer pipeline: calculateResults(validated) on the server
  clientResults,  \* scorer pipeline: calculateResults() of the client on it
  env,            \* process.env: GMAIL_USER and GMAIL_APP_PASSWORD
  requests,       \* the POST /api/email-results requests, by arrival number
  currentSection,     \* WheelOfLife: the section on display
  assessmentData,     \* WheelOfLife: the two mappings the sliders fill
  calculatedResults,  \* WheelOfLife: Null or the result on display
  retakes             \* history: times Retake Assessment was pressed

scorerVars == << input, validated, serverResults, clientResults >>

serverVars == << env, requests >>

clientVars == << currentSection, assessmentData, calculatedResults, retakes >>

vars == << scorerVars, serverVars, clientVars >>

\* ------------------------------------------------------------------ scorer
\* variant of OrOne: obj[key] || 5, the default the sliders display
OrOneDefaultFive(obj, key) ==
  IF key \in DOMAIN obj /\ obj[key] # 0 THEN obj[key] ELSE Q(5)

\* obj[key] || 1
OrOne(obj, key) ==
  IF key \in DOMAIN obj /\ obj[key] # 0 THEN obj[key] ELSE Q(1)

\* (a, b) => b.priority - a.priority
ByPriorityDesc(a, b) == b.priority - a.priority

\* variant of InsertStable: an unstable sort, which moves an element in front
\* of the elements it ties with
RECURSIVE InsertBeforeEqual(_, _)
InsertBeforeEqual(sorted, x) ==
  IF sorted = << >> THEN << x >>
  ELSE LET last == sorted[Len(sorted)]
       IN  IF ByPriorityDesc(last, x) < 0
             THEN Append(sorted, x)
             ELSE Append(InsertBeforeEqual(SubSeq(sorted, 1, Len(sorted) - 1), x), last)

\* Array.prototype.sort with the comparator above: a stable sort (ECMAScript
\* 2019, Node >= 11), here by insertion from the left
RECURSIVE InsertStable(_, _)
InsertStable(sorted, x) ==
  IF sorted = << >> THEN << x >>
  ELSE LET last == sorted[Len(sorted)]
       IN  IF ByPriorityDesc(last, x) <= 0
             THEN Append(sorted, x)
             ELSE Append(InsertStable(SubSeq(sorted, 1, Len(sorted) - 1), x), last)

RECURSIVE SortFrom(_, _, _)
SortFrom(arr, i, acc) ==
  IF i > Len(arr) THEN acc ELSE SortFrom(arr, i + 1, InsertStable(acc, arr[i]))

Sort(arr) == SortFrom(arr, 1, << >>)

\* variant of clientScoreCategory: the client copy drifts to the default the
\* sliders display
clientScoreCategoryDefaultFive(data, category) ==
  LET satisfaction == OrOneDefaultFive(data.satisfaction, category)
      motivation   == OrOneDefaultFive(data.motivation, category)
  IN  [ satisfaction |-> satisfaction,
        motivation   |-> motivation,
        improvement  |-> Q(10) - satisfaction,
        priority     |-> Times(Q(10) - satisfaction, motivation) ]

\* calculateResults() of the WheelOfLife component; the closure reads the
\* assessmentData of the render that created it, passed here as data
clientScoreCategory(data, category) ==
  LET satisfaction == OrOne(data.satisfaction, category)
      motivation   == OrOne(data.motivation, category)
  IN  [ satisfaction |-> satisfaction,
        motivation   |-> motivation,
        improvement  |-> Q(10) - satisfaction,
        priority     |-> Times(Q(10) - satisfaction, motivation) ]

clientCalculateResults(data) ==
  LET results ==
        [ satisfaction |-> [c \in Categories |-> clientScoreCategory(data, c).satisfaction],
          motivation   |-> [c \in Categories |-> clientScoreCategory(data, c).motivation],
          improvement  |-> [c \in Categories |-> clientScoreCategory(data, c).improvement],
          priority     |-> [c \in Categories |-> clientScoreCategory(data, c).priority] ]
      projected ==
        [ i \in 1..Len(lifeCategories) |->
            [ category     |-> lifeCategories[i],
              label        |-> lifeCategoryLabels[lifeCategories[i]],
              satisfaction |-> results.satisfaction[lifeCategories[i]],
              motivation   |-> results.motivation[lifeCategories[i]],
              improvement  |-> results.improvement[lifeCategories[i]],
              priority     |-> results.priority[lifeCategories[i]] ] ]
  IN  [ satisfaction   |-> results.satisfaction,
        motivation     |-> results.motivation,
        improvement    |-> results.improvement,
        priority       |-> results.priority,
        priorityRanked |-> Sort(projected) ]

\* the body of lifeCategories.forEach in the server's calculateResults
ScoreCategory(data, category) ==
  LET satisfaction == OrOne(data.satisfaction, category)
      motivation   == OrOne(data.motivation, category)
  IN  [ satisfaction |-> satisfaction,
        motivation   |-> motivation,
        improvement  |-> Q(10) - satisfaction,
        priority     |-> Times(Q(10) - satisfaction, motivation) ]

\* variant of RankedEntry: satisfaction copied from the motivation mapping
RankedEntryMotivationTwice(results, category) ==
  [ category     |-> category,
    label        |-> lifeCategoryLabels[category],
    satisfaction |-> results.motivation[category],
    motivation   |-> results.motivation[category],
    improvement  |-> results.improvement[category],
    priority     |-> results.priority[category] ]

\* lifeCategories.map(category => ({category, label, ...}))
RankedEntry(results, category) ==
  [ category     |-> category,
    label        |-> lifeCategoryLabels[category],
    satisfaction |-> results.satisfaction[category],
    motivation   |-> results.motivation[category],
    improvement  |-> results.improvement[category],
    priority     |-> results.priority[category] ]

\* variant of calculateResults: the ranked list depends on whether another
\* request is waiting for sendMail
calculateResultsSharedState(data) ==
  LET r == clientCalculateResults(data)
  IN  IF \E q \in DOMAIN requests : requests[q].pc = "sendMail"
        THEN [ r EXCEPT !.priorityRanked =
                 [ i \in 1..Len(@) |-> @[Len(@) + 1 - i] ] ]
        ELSE r

\* calculateResults(assessmentData) of server/routes.ts
calculateResults(data) ==
  LET results ==
        [ satisfaction |-> [c \in Categories |-> ScoreCategory(data, c).satisfaction],
          motivation   |-> [c \in Categories |-> ScoreCategory(data, c).motivation],
          improvement  |-> [c \in Categories |-> ScoreCategory(data, c).improvement],
          priority     |-> [c \in Categories |-> ScoreCategory(data, c).priority] ]
      projected ==
        [ i \in 1..Len(lifeCategories) |-> RankedEntry(results, lifeCategories[i]) ]
  IN  [ satisfaction   |-> results.satisfaction,
        motivation     |-> results.motivation,
        improvement    |-> results.improvement,
        priority       |-> results.priority,
        priorityRanked |-> Sort(projected) ]

Rejected == [type |-> "ZodError"]

\* ----------------------------------------------- inputs of the scorer pipeline
\* keys a request may carry: the first, second, a middle and the last category
\* and one key that is no category (z.record accepts any key)
InputKeys == { "health", "relationships", "personal", "finances", "hobbies" }

\* ratings a request may carry: 0, 1, 1.5, 7, 10 and 11
InputRatings ==
  { JsonNumber(Q(0)), JsonNumber(Q(1)), JsonNumber(QH(1)),
    JsonNumber(Q(7)), JsonNumber(Q(10)), JsonNumber(Q(11)) }

WellShaped(s, m) ==
  JsonObject([ satisfaction |-> JsonObject(s), motivation |-> JsonObject(m) ])

MalformedInputs ==
  { JsonString(<< "n", "/", "a" >>),
    JsonObject([ satisfaction |-> JsonObject(<< >>) ]),
    JsonObject([ satisfaction |-> JsonObject(<< >>), motivation |-> JsonString(<< >>) ]),
    JsonObject([ satisfaction |-> JsonObject([ k \in {"health"} |-> JsonString(<< "7" >>) ]),
                 motivation |-> JsonObject(<< >>) ]) }

ScorerInit ==
  /\ \/ \E D1 \in SUBSET InputKeys, D2 \in SUBSET InputKeys :
          /\ Cardinality(D1) + Cardinality(D2) <= MaxEntries
          /\ \E s \in [D1 -> InputRatings], m \in [D2 -> InputRatings] :
               input = WellShaped(s, m)
     \/ input \in MalformedInputs
  /\ validated = Null
  /\ serverResults = Null
  /\ clientResults = Null

\* routes.ts line 20: the assessmentData part of emailResultsSchema.parse
ParseInput ==
  /\ validated = Null
  /\ validated' = IF assessmentSchema(input) THEN ParsedAssessment(input) ELSE Rejected
  /\ UNCHANGED << input, serverResults, clientResults, serverVars, clientVars >>

\* routes.ts line 23 and the client's showResults, on the same parsed value
ScoreInput ==
  /\ validated \notin { Null, Rejected }
  /\ serverResults = Null
  /\ serverResults' = calculateResults(validated)
  /\ clientResults' = clientCalculateResults(validated)
  /\ UNCHANGED << input, validated, serverVars, clientVars >>

ScorerNext == ParseInput \/ ScoreInput

\* --------------------------------------------------- POST /api/email-results
EnvUnset == [defined |-> FALSE, value |-> ""]

EnvSet(s) == [defined |-> TRUE, value |-> s]

\* what process.env may hold for either variable
EnvValues == { EnvUnset, EnvSet(""), EnvSet("configured") }

\* !process.env.X
Falsy(x) == ~x.defined \/ x.value = ""

\* variant of CredentialsMissing: && in place of ||
CredentialsMissingBoth == Falsy(env.GMAIL_USER) /\ Falsy(env.GMAIL_APP_PASSWORD)

\* !process.env.GMAIL_USER || !process.env.GMAIL_APP_PASSWORD
CredentialsMissing == Falsy(env.GMAIL_USER) \/ Falsy(env.GMAIL_APP_PASSWORD)

NotConfigured ==
  [ status  |-> 500, success |-> FALSE,
    message |-> "Email service is not configured. Please contact support." ]

GenericFailure ==
  [ status  |-> 500, success |-> FALSE,
    message |-> "Failed to send email. Please check your email address and try again." ]

Success ==
  [ status |-> 200, success |-> TRUE, message |-> "Results sent successfully!" ]

\* name ? `Hi ${name},` : "Hello,"
Greeting(name) ==
  IF name.type = "string" /\ name.value # << >>
    THEN << "Hi ", name.value, "," >>
    ELSE << "Hello," >>

\* variant of generateEmailHTML: slice(1, 4) in place of slice(0, 3)
generateEmailHTMLOffByOne(results, name) ==
  LET topPriorities == SubSeq(results.priorityRanked, 2, 4)
  IN  [ greeting |-> Greeting(name),
        items    |-> [ i \in 1..Len(topPriorities) |->
                         [ index        |-> i,
                           label        |-> topPriorities[i].label,
                           satisfaction |-> topPriorities[i].satisfaction,
                           motivation   |-> topPriorities[i].motivation,
                           priority     |-> topPriorities[i].priority ] ] ]

\* generateEmailHTML: the parts of the page that depend on its arguments
generateEmailHTML(results, name) ==
  LET topPriorities ==
        SubSeq(results.priorityRanked, 1,
               IF Len(results.priorityRanked) < 3 THEN Len(results.priorityRanked) ELSE 3)
  IN  [ greeting |-> Greeting(name),
        items    |-> [ i \in 1..Len(topPriorities) |->
                         [ index        |-> i,
                           label        |-> topPriorities[i].label,
                           satisfaction |-> topPriorities[i].satisfaction,
                           motivation   |-> topPriorities[i].motivation,
                           priority     |-> topPriorities[i].priority ] ] ]

\* a request that has not arrived yet
NoRequest ==
  [ pc |-> "none", body |-> Null, validatedData |-> Null, results |-> Null,
    mail |-> Null, responses |-> << >>, delivery |-> "none",
    parseCalls |-> 0, scoreCalls |-> 0, transports |-> 0, sendMailCalls |-> 0 ]

\* request bodies
EmailSamples ==
  { JsonString(<< "a", "@", "b", ".", "c", "o" >>), JsonString(<< "a", ".", "b" >>) }

NameSamples ==
  { JsonUndefined, JsonString(<< >>), JsonString(<< "A", "n", "n" >>) }

AssessmentSamples ==
  { WellShaped(<< >>, << >>),
    WellShaped([ k \in {"health"} |-> JsonNumber(Q(7)) ],
               [ k \in {"health"} |-> JsonNumber(Q(10)) ]),
    WellShaped([ k \in {"health"} |-> JsonNumber(Q(11)) ], << >>),
    JsonString(<< "n", "/", "a" >>) }

Bodies ==
  [ email : EmailSamples, name : NameSamples, updates : { JsonUndefined },
    assessmentData : AssessmentSamples ]

ServerInit ==
  /\ env \in [ GMAIL_USER : EnvValues, GMAIL_APP_PASSWORD : EnvValues ]
  /\ requests = [ r \in 1..MaxRequests |-> NoRequest ]

Arrives(r) ==
  /\ requests[r].pc = "none"
  /\ \A q \in 1..(r - 1) : requests[q].pc # "none"

\* variant of ReceiveNotConfigured: the body is parsed before the credential
\* check, so an invalid body reaches the catch block
ReceiveNotConfiguredAfterParse(r, body) ==
  /\ Arrives(r)
  /\ CredentialsMissing
  /\ requests' = [ requests EXCEPT ![r] =
        [ @ EXCEPT !.pc = "done", !.body = body, !.parseCalls = @ + 1,
                   !.responses =
                     Append(@, IF emailResultsSchema(body) THEN NotConfigured
                                                           ELSE GenericFailure) ] ]
  /\ UNCHANGED << env, scorerVars, clientVars >>

\* lines 13-18: a credential is missing
ReceiveNotConfigured(r, body) ==
  /\ Arrives(r)
  /\ CredentialsMissing
  /\ requests' = [ requests EXCEPT ![r] =
        [ @ EXCEPT !.pc = "done", !.body = body,
                   !.responses = Append(@, NotConfigured) ] ]
  /\ UNCHANGED << env, scorerVars, clientVars >>

\* variant of ReceiveInvalid: calculateResults is called on the raw body
\* before parse
ReceiveInvalidScoresFirst(r, body) ==
  /\ Arrives(r)
  /\ ~CredentialsMissing
  /\ ~emailResultsSchema(body)
  /\ requests' = [ requests EXCEPT ![r] =
        [ @ EXCEPT !.pc = "done", !.body = body, !.parseCalls = @ + 1,
                   !.scoreCalls = @ + 1,
                   !.responses = Append(@, GenericFailure) ] ]
  /\ UNCHANGED << env, scorerVars, clientVars >>

\* lines 20 and 46-52: emailResultsSchema.parse throws, the catch block answers
ReceiveInvalid(r, body) ==
  /\ Arrives(r)
  /\ ~CredentialsMissing
  /\ ~emailResultsSchema(body)
  /\ requests' = [ requests EXCEPT ![r] =
        [ @ EXCEPT !.pc = "done", !.body = body, !.parseCalls = @ + 1,
                   !.responses = Append(@, GenericFailure) ] ]
  /\ UNCHANGED << env, scorerVars, clientVars >>

\* variant of ReceiveAndSend: sendMail is not awaited, the success response is
\* sent at once
ReceiveAndSendNoAwait(r, body) ==
  /\ Arrives(r)
  /\ ~CredentialsMissing
  /\ emailResultsSchema(body)
  /\ LET validatedData == ParsedBody(body)
         results == calculateResults(validatedData.assessmentData)
         emailHTML == generateEmailHTML(results, validatedData.name)
     IN  requests' = [ requests EXCEPT ![r] =
           [ @ EXCEPT !.pc = "sendMail", !.body = body, !.parseCalls = @ + 1,
                      !.validatedData = validatedData,
                      !.results = results, !.scoreCalls = @ + 1,
                      !.transports = @ + 1,
                      !.mail = [ to |-> validatedData.email, html |-> emailHTML ],
                      !.sendMailCalls = @ + 1, !.delivery = "pending",
                      !.responses = Append(@, Success) ] ]
  /\ UNCHANGED << env, scorerVars, clientVars >>

\* lines 20-43: parse, score, create the transport, build the page and call
\* sendMail; the handler then waits for the promise
ReceiveAndSend(r, body) ==
  /\ Arrives(r)
  /\ ~CredentialsMissing
  /\ emailResultsSchema(body)
  /\ LET validatedData == ParsedBody(body)
         results == calculateResults(validatedData.assessmentData)
         emailHTML == generateEmailHTML(results, validatedData.name)
     IN  requests' = [ requests EXCEPT ![r] =
           [ @ EXCEPT !.pc = "sendMail", !.body = body, !.parseCalls = @ + 1,
                      !.validatedData = validatedData,
                      !.results = results, !.scoreCalls = @ + 1,
                      !.transports = @ + 1,
                      !.mail = [ to |-> validatedData.email, html |-> emailHTML ],
                      !.sendMailCalls = @ + 1, !.delivery = "pending" ] ]
  /\ UNCHANGED << env, scorerVars, clientVars >>

\* line 45: the sendMail promise resolves
SendMailResolves(r) ==
  /\ requests[r].pc = "sendMail"
  /\ requests' = [ requests EXCEPT ![r] =
        [ @ EXCEPT !.pc = "done", !.delivery = "resolved",
                   !.responses = Append(@, Success) ] ]
  /\ UNCHANGED << env, scorerVars, clientVars >>

\* variant of SendMailRejects: a rejected sendMail is attempted again
SendMailRejectsRetry(r) ==
  /\ requests[r].pc = "sendMail"
  /\ requests[r].sendMailCalls < 2
  /\ requests' = [ requests EXCEPT ![r] =
        [ @ EXCEPT !.sendMailCalls = @ + 1 ] ]
  /\ UNCHANGED << env, scorerVars, clientVars >>

\* lines 46-52: the sendMail promise rejects, the catch block answers
SendMailRejects(r) ==
  /\ requests[r].pc = "sendMail"
  /\ requests' = [ requests EXCEPT ![r] =
        [ @ EXCEPT !.pc = "done", !.delivery = "rejected",
                   !.responses = Append(@, GenericFailure) ] ]
  /\ UNCHANGED << env, scorerVars, clientVars >>

ServerNext ==
  \/ \E r \in 1..MaxRequests, body \in Bodies : ReceiveNotConfigured(r, body)
  \/ \E r \in 1..MaxRequests, body \in Bodies : ReceiveInvalid(r, body)
  \/ \E r \in 1..MaxRequests, body \in Bodies : ReceiveAndSend(r, body)
  \/ \E r \in 1..MaxRequests : SendMailResolves(r)
  \/ \E r \in 1..MaxRequests : SendMailRejects(r)

\* ------------------------------------------------------ WheelOfLife component
\* ratings a slider (min 1, max 10, step 1) is moved to
SliderValues == { Q(1), Q(5), Q(7), Q(10) }

\* the value a slider displays: assessmentData[type][category] || 5
SliderValue(type, category) ==
  IF category \in DOMAIN assessmentData[type] /\ assessmentData[type][category] # 0
    THEN assessmentData[type][category]
    ELSE Q(5)

\* the useState initial values
ClientInit ==
  /\ currentSection = "intro"
  /\ assessmentData = [ satisfaction |-> << >>, motivation |-> << >> ]
  /\ calculatedResults = Null
  /\ retakes = 0

\* variant of BeginAssessment: the button opens the motivation section
BeginAssessmentSkips ==
  /\ currentSection = "intro"
  /\ currentSection' = "motivation"
  /\ UNCHANGED << assessmentData, calculatedResults, retakes, scorerVars, serverVars >>

\* Begin Assessment
BeginAssessment ==
  /\ currentSection = "intro"
  /\ currentSection' = "satisfaction"
  /\ UNCHANGED << assessmentData, calculatedResults, retakes, scorerVars, serverVars >>

\* variant of updateAssessmentData: the mapping is rebuilt without ...prev[type]
updateAssessmentDataNoSpread(category, type, value) ==
  /\ currentSection = type
  /\ assessmentData' =
       [ assessmentData EXCEPT ![type] = [ k \in { category } |-> value ] ]
  /\ UNCHANGED << currentSection, calculatedResults, retakes, scorerVars, serverVars >>

\* a slider of the section on display changes: updateAssessmentData
updateAssessmentData(category, type, value) ==
  /\ currentSection = type
  /\ Cardinality(DOMAIN assessmentData.satisfaction \cup
                 (IF type = "satisfaction" THEN { category } ELSE { }))
       + Cardinality(DOMAIN assessmentData.motivation \cup
                 (IF type = "motivation" THEN { category } ELSE { })) <= MaxRated
  /\ assessmentData' =
       [ assessmentData EXCEPT ![type] =
           [ k \in DOMAIN @ \cup { category } |-> IF k = category THEN value ELSE @[k] ] ]
  /\ UNCHANGED << currentSection, calculatedResults, retakes, scorerVars, serverVars >>

\* Continue to Motivation
ContinueToMotivation ==
  /\ currentSection = "satisfaction"
  /\ currentSection' = "motivation"
  /\ UNCHANGED << assessmentData, calculatedResults, retakes, scorerVars, serverVars >>

\* View My Results: showResults
showResults ==
  /\ currentSection = "motivation"
  /\ calculatedResults' = clientCalculateResults(assessmentData)
  /\ currentSection' = "results"
  /\ UNCHANGED << assessmentData, retakes, scorerVars, serverVars >>

\* variant of RetakeAssessment: setCalculatedResults(null) is missing
RetakeAssessmentKeepsResults ==
  /\ currentSection = "results"
  /\ calculatedResults # Null
  /\ retakes < MaxRetakes
  /\ currentSection' = "intro"
  /\ assessmentData' = [ satisfaction |-> << >>, motivation |-> << >> ]
  /\ retakes' = retakes + 1
  /\ UNCHANGED << calculatedResults, scorerVars, serverVars >>

\* variant of RetakeAssessment: setAssessmentData({...}) is missing
RetakeAssessmentKeepsData ==
  /\ currentSection = "results"
  /\ calculatedResults # Null
  /\ retakes < MaxRetakes
  /\ currentSection' = "intro"
  /\ calculatedResults' = Null
  /\ retakes' = retakes + 1
  /\ UNCHANGED << assessmentData, scorerVars, serverVars >>

\* Retake Assessment
RetakeAssessment ==
  /\ currentSection = "results"
  /\ calculatedResults # Null
  /\ retakes < MaxRetakes
  /\ currentSection' = "intro"
  /\ assessmentData' = [ satisfaction |-> << >>, motivation |-> << >> ]
  /\ calculatedResults' = Null
  /\ retakes' = retakes + 1
  /\ UNCHANGED << scorerVars, serverVars >>

ClientNext ==
  \/ BeginAssessment
  \/ \E category \in Categories, type \in { "satisfaction", "motivation" },
        value \in SliderValues : updateAssessmentData(category, type, value)
  \/ ContinueToMotivation
  \/ showResults
  \/ RetakeAssessment

\* ----------------------------------------------------------- specifications
ScorerIdle ==
  input = Null /\ validated = Null /\ serverResults = Null /\ clientResults = Null

ServerIdle ==
  /\ env = [ GMAIL_USER |-> EnvUnset, GMAIL_APP_PASSWORD |-> EnvUnset ]
  /\ requests = [ r \in 1..MaxRequests |-> NoRequest ]

\* the scorer pipeline on one drawn input; server and form are idle
InitScorer == ScorerInit /\ ServerIdle /\ ClientInit

SpecScorer == InitScorer /\ [][ScorerNext]_vars

\* the server handling requests; scorer pipeline and form are idle
InitServer == ServerInit /\ ScorerIdle /\ ClientInit

SpecServer == InitServer /\ [][ServerNext]_vars

\* the form in the browser; scorer pipeline and server are idle
InitClient == ClientInit /\ ScorerIdle /\ ServerIdle

SpecClient == InitClient /\ [][ClientNext]_vars

\* ------------------------------------------------------------------- claims
Scored == serverResults # Null /\ clientResults # Null

\* the rating the input gives a category, 1 when the mapping lacks it
RatingOrOne(mapping, c) == IF c \in DOMAIN mapping THEN mapping[c] ELSE Q(1)

\* position of a category in the fixed enumeration
IndexOf(c) == CHOOSE i \in 1..Len(lifeCategories) : lifeCategories[i] = c

\* C1: for every scored input and every category, both copies of the scorer
\* record improvement = 10 - satisfaction and priority = (10 - satisfaction) *
\* motivation, the ratings being the input's, 1 when the category is absent.
C1_PriorityFormula ==
  Scored =>
    \A c \in Categories :
      LET s == RatingOrOne(validated.satisfaction, c)
          m == RatingOrOne(validated.motivation, c)
      IN  /\ serverResults.improvement[c] = Q(10) - s
          /\ serverResults.priority[c] = Times(Q(10) - s, m)
          /\ clientResults.improvement[c] = Q(10) - s
          /\ clientResults.priority[c] = Times(Q(10) - s, m)

\* C1 witness: health rated 7 and 10 (priority 30), relationships absent from
\* both mappings (priority 9)
C1_Witness ==
  /\ Scored
  /\ "health" \in DOMAIN validated.satisfaction
  /\ "health" \in DOMAIN validated.motivation
  /\ validated.satisfaction["health"] = Q(7)
  /\ validated.motivation["health"] = Q(10)
  /\ "relationships" \notin DOMAIN validated.satisfaction
  /\ "relationships" \notin DOMAIN validated.motivation
  /\ serverResults.priority["health"] = Q(30)
  /\ serverResults.priority["relationships"] = Q(9)

\* C2: priorityRanked is ordered by priority descending, and entries of equal
\* priority keep the order of their categories in the fixed enumeration.
C2_RankedDescendingStable ==
  serverResults # Null =>
    LET ranked == serverResults.priorityRanked
    IN  \A i, j \in 1..Len(ranked) :
          i < j =>
            /\ ranked[i].priority >= ranked[j].priority
            /\ ranked[i].priority = ranked[j].priority =>
                 IndexOf(ranked[i].category) < IndexOf(ranked[j].category)

\* C2 witness: the last category ranks first, and the entries behind it tie
C2_Witness ==
  /\ serverResults # Null
  /\ serverResults.priorityRanked[1].category = "finances"
  /\ serverResults.priorityRanked[2].priority = serverResults.priorityRanked[3].priority
  /\ serverResults.priorityRanked[2].category = "health"

\* the entries of a ranked list agree with the four mappings of its result
RankedMatches(results) ==
  LET ranked == results.priorityRanked
  IN  /\ Len(ranked) = 8
      /\ \A c \in Categories :
           Cardinality({ i \in 1..Len(ranked) : ranked[i].category = c }) = 1
      /\ \A i \in 1..Len(ranked) :
           /\ ranked[i].category \in Categories
           /\ ranked[i].satisfaction = results.satisfaction[ranked[i].category]
           /\ ranked[i].motivation = results.motivation[ranked[i].category]
           /\ ranked[i].improvement = results.improvement[ranked[i].category]
           /\ ranked[i].priority = results.priority[ranked[i].category]

\* C3: for every valid input, empty and partial mappings included,
\* priorityRanked has exactly 8 entries, one per category, each carrying the
\* values the result's four mappings hold for its category.
C3_RankedIsAPermutation ==
  Scored => RankedMatches(serverResults) /\ RankedMatches(clientResults)

\* C3 witness: an empty satisfaction mapping, and a motivation mapping with one
\* category and one key that is no category
C3_Witness ==
  /\ Scored
  /\ DOMAIN validated.satisfaction = { }
  /\ DOMAIN validated.motivation = { "personal", "hobbies" }

\* a credential is absent from the environment
CredentialAbsent == ~env.GMAIL_USER.defined \/ ~env.GMAIL_APP_PASSWORD.defined

\* both credentials are set to a non-empty value
Configured ==
  env.GMAIL_USER = EnvSet("configured") /\ env.GMAIL_APP_PASSWORD = EnvSet("configured")

Received == { r \in 1..MaxRequests : requests[r].pc # "none" }

ValidEmail == JsonString(<< "a", "@", "b", ".", "c", "o" >>)

\* the bodies validation must accept: a well-formed address, ratings in 1..10
ValidPayload(body) ==
  /\ body.email = ValidEmail
  /\ body.assessmentData \in
       { WellShaped(<< >>, << >>),
         WellShaped([ k \in {"health"} |-> JsonNumber(Q(7)) ],
                    [ k \in {"health"} |-> JsonNumber(Q(10)) ]) }

\* C4: a request with a valid payload that arrives while a credential is absent
\* is answered with the not-configured failure, which differs from the generic
\* failure, and no transport is created and sendMail is not called.
C4_NotConfiguredRefused ==
  \A r \in Received :
    (CredentialAbsent /\ ValidPayload(requests[r].body)) =>
      /\ requests[r].responses = << NotConfigured >>
      /\ NotConfigured # GenericFailure
      /\ requests[r].transports = 0
      /\ requests[r].sendMailCalls = 0

\* C4 witness: the account is set, its password is not, a valid request is done
C4_Witness ==
  /\ env.GMAIL_USER = EnvSet("configured")
  /\ env.GMAIL_APP_PASSWORD = EnvUnset
  /\ \E r \in Received :
       ValidPayload(requests[r].body) /\ requests[r].pc = "done"

C6_OnlyIntegerRatingsReachScorer ==
  serverResults # Null =>
    \A t \in { "satisfaction", "motivation" } :
      \A k \in DOMAIN validated[t] :
        /\ IsInteger(validated[t][k])
        /\ validated[t][k] >= Q(1)
        /\ validated[t][k] <= Q(10)

\* C7: a request makes exactly one sendMail call when the credentials are
\* configured and its payload is valid, and none otherwise; a failed attempt is
\* not retried.
C7_OneDeliveryAttempt ==
  \A r \in Received :
    requests[r].sendMailCalls =
      IF Configured /\ ValidPayload(requests[r].body) THEN 1 ELSE 0

\* C7 witness: a request whose sendMail attempt failed has been answered
C7_Witness ==
  \E r \in Received :
    /\ requests[r].pc = "done"
    /\ requests[r].delivery = "rejected"
    /\ requests[r].sendMailCalls = 1

\* C8: a request gets no response before it is done and exactly one when it is;
\* the success response is sent only after sendMail has succeeded, and a
\* failed sendMail yields the generic failure response.
C8_OneResponse ==
  \A r \in 1..MaxRequests :
    /\ Len(requests[r].responses) = (IF requests[r].pc = "done" THEN 1 ELSE 0)
    /\ \A i \in 1..Len(requests[r].responses) :
         requests[r].responses[i].success => requests[r].delivery = "resolved"
    /\ requests[r].delivery = "resolved" => requests[r].responses = << Success >>
    /\ requests[r].delivery = "rejected" => requests[r].responses = << GenericFailure >>

\* C8 witness: one request answered with success, one with the generic failure
\* after its sendMail failed
C8_Witness ==
  \E r, q \in Received :
    /\ requests[r].delivery = "resolved" /\ requests[r].responses = << Success >>
    /\ requests[q].delivery = "rejected" /\ requests[q].responses = << GenericFailure >>

C10_IntegerRanges ==
  serverResults # Null =>
    \A c \in Categories :
      /\ IsInteger(serverResults.improvement[c])
      /\ serverResults.improvement[c] >= Q(0)
      /\ serverResults.improvement[c] <= Q(9)
      /\ IsInteger(serverResults.priority[c])
      /\ serverResults.priority[c] >= Q(0)
      /\ serverResults.priority[c] <= Q(90)
      /\ serverResults.satisfaction[c] = Q(10) => serverResults.priority[c] = Q(0)
      /\ (serverResults.satisfaction[c] = Q(1) /\ serverResults.motivation[c] = Q(10))
           => serverResults.priority[c] = Q(90)

\* C11: the client copy and the server copy of calculateResults give the same
\* result (four mappings and ranked list) for the same assessment input.
C11_CopiesAgree == Scored => clientResults = serverResults

\* C11 witness: both copies scored an input with a half rating and an absent
\* category, and ranked a middle category first
C11_Witness ==
  /\ Scored
  /\ "personal" \in DOMAIN validated.motivation
  /\ validated.motivation["personal"] = Q(10)
  /\ "health" \in DOMAIN validated.satisfaction
  /\ validated.satisfaction["health"] = QH(1)
  /\ clientResults.priorityRanked[1].category = "personal"
  /\ serverResults.priorityRanked[1].category = "personal"

\* the request names somebody: its name is a string that is not empty (the
\* form sends "" when the field was left empty)
GivesName(body) == body.name.type = "string" /\ Len(body.name.value) > 0

\* C12: the mail of a successful send lists exactly the first three entries of
\* priorityRanked, in ranked order, each with its label, satisfaction,
\* motivation and priority; it greets by name when the request gives a name
\* and with the generic greeting only when it gives none.
C12_MailContent ==
  \A r \in Received :
    requests[r].delivery = "resolved" =>
      LET html   == requests[r].mail.html
          ranked == requests[r].results.priorityRanked
      IN  /\ requests[r].mail.to = requests[r].body.email.value
          /\ Len(html.items) = 3
          /\ \A i \in 1..3 :
               /\ html.items[i].index = i
               /\ html.items[i].label = lifeCategoryLabels[ranked[i].category]
               /\ html.items[i].satisfaction = ranked[i].satisfaction
               /\ html.items[i].motivation = ranked[i].motivation
               /\ html.items[i].priority = ranked[i].priority
          /\ GivesName(requests[r].body) =>
               html.greeting = << "Hi ", requests[r].body.name.value, "," >>
          /\ html.greeting = << "Hello," >> <=> ~GivesName(requests[r].body)

\* C12 witness: a mail greeting Ann and led by health (7, 10, priority 30) was
\* sent, and so was a mail with the generic greeting for an empty name
C12_Witness ==
  \E r, q \in Received :
    /\ requests[r].delivery = "resolved"
    /\ requests[r].body.name = JsonString(<< "A", "n", "n" >>)
    /\ requests[r].mail.html.items[1].label = "Health & Fitness"
    /\ requests[r].mail.html.items[1].priority = Q(30)
    /\ requests[r].mail.html.items[2].label = "Friends & Family"
    /\ requests[q].delivery = "resolved"
    /\ requests[q].body.name = JsonString(<< >>)
    /\ requests[q].mail.html.greeting = << "Hello," >>

EmptyAssessment == [ satisfaction |-> << >>, motivation |-> << >> ]

\* C13: the form is linear: it starts at intro, and the section changes only
\* from intro to satisfaction, from satisfaction to motivation, from
\* motivation to results, and from results back to intro.
C13_LinearForm ==
  /\ currentSection = "intro"
  /\ [][ currentSection' # currentSection =>
           << currentSection, currentSection' >> \in
             { << "intro", "satisfaction" >>, << "satisfaction", "motivation" >>,
               << "motivation", "results" >>, << "results", "intro" >> } ]_vars

\* C13 witness: the results section is on display for the second time, after a
\* retake, with ratings set in both sections on the way
C13_Witness ==
  /\ currentSection = "results"
  /\ retakes = 1
  /\ DOMAIN assessmentData.satisfaction # { }
  /\ DOMAIN assessmentData.motivation # { }

\* C14: calculatedResults is non-null exactly while the results section is on
\* display; there it is the result of the current assessmentData, and neither
\* changes while the section stays on display.
C14_ResultsOnlyOnResults ==
  /\ [] /\ (calculatedResults # Null) <=> (currentSection = "results")
        /\ currentSection = "results" =>
             calculatedResults = clientCalculateResults(assessmentData)
  /\ [][ (currentSection = "results" /\ currentSection' = "results") =>
           UNCHANGED << calculatedResults, assessmentData >> ]_vars

\* C14 witness: results on display for a form whose health satisfaction slider
\* was set to 7
C14_Witness ==
  /\ currentSection = "results"
  /\ calculatedResults # Null
  /\ "health" \in DOMAIN assessmentData.satisfaction
  /\ assessmentData.satisfaction["health"] = Q(7)
  /\ calculatedResults.satisfaction["health"] = Q(7)
  /\ calculatedResults.priorityRanked[1].category = "relationships"

\* C15: for every category, the rating its slider displays when View My Results
\* is pressed is the rating showResults records, untouched sliders included.
C15_ShownIsRecorded ==
  currentSection = "results" =>
    \A c \in Categories :
      /\ calculatedResults.satisfaction[c] = SliderValue("satisfaction", c)
      /\ calculatedResults.motivation[c] = SliderValue("motivation", c)

\* C16: Retake Assessment, from any results state, leads to intro with
\* calculatedResults null and both mappings empty, so the intro section never
\* holds a rating or a result of an earlier round.
C16_RetakeClears ==
  /\ [][ (currentSection = "results" /\ currentSection' # "results") =>
           /\ currentSection' = "intro"
           /\ calculatedResults' = Null
           /\ assessmentData' = EmptyAssessment ]_vars
  /\ [] ( currentSection = "intro" =>
            calculatedResults = Null /\ assessmentData = EmptyAssessment )

\* C16 witness: back at intro after a retake, everything cleared
C16_Witness ==
  /\ retakes = 1
  /\ currentSection = "intro"
  /\ calculatedResults = Null
  /\ assessmentData = EmptyAssessment

\* C17: while a credential is absent every request, whatever its payload, is
\* answered with the not-configured failure, and nothing is parsed, scored or
\* sent for it.
C17_CredentialCheckFirst ==
  \A r \in Received :
    CredentialAbsent =>
      /\ requests[r].pc = "done"
      /\ requests[r].responses = << NotConfigured >>
      /\ requests[r].parseCalls = 0
      /\ requests[r].validatedData = Null
      /\ requests[r].scoreCalls = 0
      /\ requests[r].transports = 0
      /\ requests[r].sendMailCalls = 0

\* C17 witness: with the password absent, a request with a malformed address and
\* a request with a valid payload both got the not-configured answer
C17_Witness ==
  /\ ~env.GMAIL_APP_PASSWORD.defined
  /\ env.GMAIL_USER.defined
  /\ \E r, q \in Received :
       /\ requests[r].body.email # ValidEmail
       /\ requests[r].responses = << NotConfigured >>
       /\ ValidPayload(requests[q].body)
       /\ requests[q].responses = << NotConfigured >>

\* C18: a step that changes assessmentData outside a retake sets one category
\* of one mapping to a value: the other entries of that mapping, the other
\* mapping, currentSection and calculatedResults stay as they were.
C18_UpdateFrame ==
  [][ (assessmentData' # assessmentData /\ currentSection # "results") =>
        /\ currentSection' = currentSection
        /\ calculatedResults' = calculatedResults
        /\ \E type \in { "satisfaction", "motivation" }, category \in Categories :
             LET other == IF type = "satisfaction" THEN "motivation" ELSE "satisfaction"
             IN  /\ assessmentData'[other] = assessmentData[other]
                 /\ DOMAIN assessmentData'[type] =
                      DOMAIN assessmentData[type] \cup { category }
                 /\ assessmentData'[type][category] \in SliderValues
                 /\ \A k \in DOMAIN assessmentData[type] \ { category } :
                      assessmentData'[type][k] = assessmentData[type][k] ]_vars

\* C18 witness: two satisfaction sliders were set one after the other, and the
\* first kept its value through the second update and the change of section
C18_Witness ==
  /\ currentSection = "motivation"
  /\ DOMAIN assessmentData.satisfaction = { "health", "finances" }
  /\ assessmentData.satisfaction["health"] = Q(10)
  /\ assessmentData.satisfaction["finances"] = Q(1)

====
